---- MODULE Spec2Model ----
(***************************************************************************)
(* Task Coach: a model of three pieces of the code base.                   *)
(*                                                                         *)
(*   sync    gui/dialog/attributesync.py   AttributeSync: the debounced    *)
(*           dispatch of edit commands between a control and a domain      *)
(*           object's attribute (main thread, timer threads, CallAfter).   *)
(*   win     gui/windowdimensionstracker.py  window geometry persistence.  *)
(*   tee     tee.py  the stdout/stderr tee threads and their shutdown.     *)
(*   frame   test_window_position.py  TestFrame: the target position is    *)
(*           applied once the window manager has stopped moving the window.*)
(*                                                                         *)
(* Every subsystem has its own next-state relation and specification; the  *)
(* variables of the other subsystems stay at their initial value.          *)
(***************************************************************************)
EXTENDS Integers, Sequences, FiniteSets, TLC

VARIABLES sync, win, tee, frame

vars == <<sync, win, tee, frame>>

\* Python's None.
None == "None"

(***************************************************************************)
(* Part 1.  AttributeSync                                                  *)
(***************************************************************************)

\* The values the control and the attribute can take.
Values == {"a", "b", "c"}

\* The debounce interval of a debounced synchronizer, in clock ticks.
DebounceMs == 2

\* Bounds of the exploration: edit events raised by the user, changes of the
\* attribute made elsewhere.
MaxEdits == 3
MaxChanges == 1

\* The two threads of control that run AttributeSync code.
MainThread == "main"
TimerThread == "timer"

\* A threading.Timer: waiting for its interval, past its finished-check (its
\* function is being called), or finished; cancel() sets "cancelled".
NewTimer(interval) == [pc |-> "waiting", cancelled |-> FALSE, remaining |-> interval]

\* The state of one AttributeSync after __init__, with one observed item whose
\* attribute, the control and _currentValue all show the same value.
\* Fields sinceEdit, burstCmds, burstLast, interfered, access, entryCalls,
\* unhandled and lastEvent are history: they record what happened and are read
\* by no handler. exc says that an exception is on its way up the call stack.
SyncInit(debounce, raises) ==
  [ debounce_ms    |-> debounce,
    setValueRaises |-> raises,
    currentValue   |-> "a",
    entryValue     |-> "a",
    entryAlive     |-> TRUE,
    modelValue     |-> "a",
    observing      |-> TRUE,
    pendingValue   |-> None,
    debounceTimer  |-> 0,
    timers         |-> << >>,
    callQueue      |-> 0,
    cmds           |-> << >>,
    callbackArg    |-> None,
    edits          |-> 0,
    changes        |-> 0,
    sinceEdit      |-> DebounceMs,
    burstCmds      |-> 0,
    burstLast      |-> None,
    interfered     |-> FALSE,
    access         |-> {},
    entryCalls     |-> {},
    exc            |-> FALSE,
    unhandled      |-> FALSE,
    lastEvent      |-> [kind |-> "init", value |-> None, before |-> None] ]

\* A thread touches a resource.
Touch(st, thread, what) == [st EXCEPT !.access = @ \cup {<<thread, what>>}]

\* A method of the control is called: on a control that was destroyed the call
\* raises RuntimeError (the wrapped C++ object has been deleted).
CallEntry(st, method) ==
  [st EXCEPT !.entryCalls = @ \cup {<<method, st.entryAlive>>},
             !.exc = @ \/ ~st.entryAlive]

\* try: ... except Exception: the exception is logged and goes no further.
Caught(st) == [st EXCEPT !.exc = FALSE]

\* An exception that leaves a handler reaches the caller (the main loop, or
\* the sender of the notification) unhandled.
Escaped(st) == [st EXCEPT !.unhandled = @ \/ st.exc, !.exc = FALSE]

\* AttributeSync.__invokeCallback
InvokeCallback(st, value) == [st EXCEPT !.callbackArg = value]

\* AttributeSync.__cancelPendingDebounce
CancelPendingDebounce(st, thread) ==
  LET t == st.debounceTimer
      s1 == Touch(st, thread, "pendingValue")
  IN  [s1 EXCEPT !.pendingValue = None,
                 !.timers = IF t # 0 THEN [@ EXCEPT ![t].cancelled = TRUE] ELSE @,
                 !.debounceTimer = 0]

RECURSIVE OnAttributeEdited(_, _)
RECURSIVE ExecuteCommand(_, _, _)
RECURSIVE OnAttributeChanged(_, _, _)

\* AttributeSync.__executeCommand: _currentValue is set, the command changes
\* the attribute of the item and its change notification reaches
\* onAttributeChanged before do() returns, then the callback is invoked.
ExecuteCommand(st, new_value, thread) ==
  LET s1 == Touch(st, thread, "command")
      s2 == [s1 EXCEPT !.currentValue = new_value,
                       !.modelValue = new_value,
                       !.cmds = Append(@, new_value),
                       !.burstCmds = @ + 1]
      s3 == IF s2.observing THEN OnAttributeChanged(s2, new_value, thread) ELSE s2
  IN  IF s3.exc THEN s3 ELSE InvokeCallback(s3, new_value)

\* The debounced branch of onAttributeEdited (lines 91-102): under the lock,
\* store the value, cancel the timer the synchronizer refers to, start a new
\* one. A value-changing edit that arrives a full interval after the previous
\* one starts a new burst.
StartDebounce(st, new_value) ==
  LET t == st.debounceTimer
      s1 == Touch(st, MainThread, "pendingValue")
  IN  [s1 EXCEPT !.pendingValue = new_value,
                 !.timers = Append(IF t # 0 THEN [@ EXCEPT ![t].cancelled = TRUE] ELSE @,
                                   NewTimer(st.debounce_ms)),
                 !.debounceTimer = Len(st.timers) + 1,
                 !.burstCmds = IF st.sinceEdit >= DebounceMs THEN 0 ELSE @,
                 !.burstLast = new_value,
                 !.sinceEdit = 0]

\* A faulty variant: the comparison with _currentValue is dropped, every edit event is
\* dispatched.
OnAttributeEdited_NoCompare(st, thread) ==
  LET new_value == st.entryValue
  IN  IF st.debounce_ms > 0
      THEN StartDebounce(st, new_value)
      ELSE ExecuteCommand([st EXCEPT !.sinceEdit = 0, !.burstCmds = 0,
                                     !.burstLast = new_value], new_value, thread)

\* AttributeSync.onAttributeEdited: the handler of the control's edit event.
OnAttributeEdited(st, thread) ==
  LET s0 == CallEntry(st, "GetValue")   \* getValue()
      new_value == st.entryValue
  IN  IF s0.exc THEN s0
      ELSE IF new_value # st.currentValue
      THEN IF st.debounce_ms > 0
           THEN StartDebounce(s0, new_value)
           ELSE ExecuteCommand([s0 EXCEPT !.sinceEdit = 0, !.burstCmds = 0,
                                          !.burstLast = new_value], new_value, thread)
      ELSE s0

\* setValue(): the control shows the value; a control whose SetValue raises
\* its edit event runs onAttributeEdited before SetValue returns.
SetValue(st, new_value, thread) ==
  LET s0 == CallEntry(st, "SetValue")
      s1 == [s0 EXCEPT !.entryValue = new_value]
  IN  IF s0.exc THEN s0
      ELSE IF st.setValueRaises THEN OnAttributeEdited(s1, thread) ELSE s1

\* A faulty variant: the control is updated before _currentValue is.
OnAttributeChanged_SetValueFirst(st, newValue, thread) ==
  IF st.entryAlive
  THEN IF newValue # st.currentValue
       THEN LET s1 == CancelPendingDebounce(st, thread)
                s2 == SetValue(s1, newValue, thread)
            IN  InvokeCallback([s2 EXCEPT !.currentValue = newValue], newValue)
       ELSE st
  ELSE [st EXCEPT !.observing = FALSE]

\* AttributeSync.onAttributeChanged, for a sender that is the observed item.
OnAttributeChanged(st, newValue, thread) ==
  IF st.entryAlive
  THEN IF newValue # st.currentValue
       THEN LET s1 == [st EXCEPT !.currentValue = newValue]
                s2 == CancelPendingDebounce(s1, thread)
                s3 == SetValue(s2, newValue, thread)
            IN  IF s3.exc THEN s3 ELSE InvokeCallback(s3, newValue)
       ELSE st
  ELSE [st EXCEPT !.observing = FALSE]   \* __stop_observing_attribute

\* __onDebounceTimerMain, lines 124-132: under the lock the pending value is
\* taken and the timer forgotten, then the command is executed.
TakePending(st, thread) ==
  LET s1 == Touch(st, thread, "pendingValue")
      pending == st.pendingValue
      s2 == [s1 EXCEPT !.pendingValue = None, !.debounceTimer = 0]
  IN  IF pending # None THEN ExecuteCommand(s2, pending, thread) ELSE s2

\* __onDebounceTimerMain, lines 117-134, after the look at the control: an
\* exception raised so far or by the rest is caught.
DebounceTimerMainFrom(st, thread) ==
  Caught(IF st.exc THEN st ELSE TakePending(st, thread))

\* A faulty variant: IsShown() is called without asking whether the control is
\* still there.
OnDebounceTimerMain_NoEntryCheck(st, thread) ==
  DebounceTimerMainFrom(
    CallEntry(Touch(st, thread, "onDebounceTimerMain"), "IsShown"), thread)

\* AttributeSync.__onDebounceTimerMain, run by the thread that calls it.
OnDebounceTimerMain(st, thread) ==
  DebounceTimerMainFrom(
    IF st.entryAlive
    THEN CallEntry(Touch(st, thread, "onDebounceTimerMain"), "IsShown")
    ELSE Touch(st, thread, "onDebounceTimerMain"), thread)

\* A faulty variant: the timer thread runs the main-thread callback itself.
OnDebounceTimerThread_Direct(st) ==
  OnDebounceTimerMain(st, TimerThread)

\* AttributeSync.__onDebounceTimerThread: wx.CallAfter posts the callback to
\* the main thread's event queue.
OnDebounceTimerThread(st) ==
  [Touch(st, TimerThread, "CallAfter") EXCEPT !.callQueue = @ + 1]

\* The event just handled, for the properties.
Event(st, kind, value) ==
  [st EXCEPT !.lastEvent = [kind |-> kind, value |-> value, before |-> sync.currentValue]]

LiveTimer(tm) == (tm.pc = "waiting" /\ ~tm.cancelled) \/ tm.pc = "fired"

\* No debounce timer running and no main-thread callback queued.
Quiescent(st) ==
  /\ st.callQueue = 0
  /\ \A t \in 1..Len(st.timers) : ~LiveTimer(st.timers[t])

(* The actions of the synchronizer. *)

\* The user changes the control to v; the control raises its edit event.
UserEdit(v) ==
  /\ sync.entryAlive
  /\ sync.edits < MaxEdits
  /\ sync' = Event(Escaped(OnAttributeEdited([sync EXCEPT !.entryValue = v,
                                                          !.edits = @ + 1],
                                             MainThread)), "edit", v)
  /\ UNCHANGED <<win, tee, frame>>

\* The attribute of the observed item is changed elsewhere (another dialog's
\* command); the change notification is delivered on the main thread.
ExternalChange(w) ==
  /\ w # sync.modelValue
  /\ sync.changes < MaxChanges
  /\ LET s1 == [sync EXCEPT !.modelValue = w, !.changes = @ + 1, !.interfered = TRUE]
     IN  sync' = Event(Escaped(IF s1.observing THEN OnAttributeChanged(s1, w, MainThread)
                               ELSE s1),
                       "changed", w)
  /\ UNCHANGED <<win, tee, frame>>

\* The dialog is closed and the control destroyed.
DestroyEntry ==
  /\ sync.entryAlive
  /\ sync' = Event([sync EXCEPT !.entryAlive = FALSE, !.interfered = TRUE], "destroy", None)
  /\ UNCHANGED <<win, tee, frame>>

\* One unit of time passes.
Tick ==
  /\ \/ sync.sinceEdit < DebounceMs
     \/ \E t \in 1..Len(sync.timers) :
          sync.timers[t].pc = "waiting" /\ ~sync.timers[t].cancelled
          /\ sync.timers[t].remaining > 0
  /\ sync' = Event([sync EXCEPT
        !.sinceEdit = IF @ < DebounceMs THEN @ + 1 ELSE @,
        !.timers = [t \in 1..Len(@) |->
                      IF @[t].pc = "waiting" /\ ~@[t].cancelled /\ @[t].remaining > 0
                      THEN [@[t] EXCEPT !.remaining = @ - 1] ELSE @[t]]],
        "tick", None)
  /\ UNCHANGED <<win, tee, frame>>

\* threading.Timer.run: the interval has passed and the timer was not
\* cancelled; the timer thread goes on to call its function.
TimerExpire(t) ==
  /\ t \in 1..Len(sync.timers)
  /\ sync.timers[t].pc = "waiting"
  /\ ~sync.timers[t].cancelled
  /\ sync.timers[t].remaining = 0
  /\ sync' = Event([sync EXCEPT !.timers[t].pc = "fired"], "expire", None)
  /\ UNCHANGED <<win, tee, frame>>

\* The timer thread runs __onDebounceTimerThread and ends.
TimerRun(t) ==
  /\ t \in 1..Len(sync.timers)
  /\ sync.timers[t].pc = "fired"
  /\ sync' = Event(OnDebounceTimerThread([sync EXCEPT !.timers[t].pc = "done"]),
                   "timer", None)
  /\ UNCHANGED <<win, tee, frame>>

\* The main loop runs a queued __onDebounceTimerMain.
RunCallAfter ==
  /\ sync.callQueue > 0
  /\ sync' = Event(Escaped(OnDebounceTimerMain([sync EXCEPT !.callQueue = @ - 1],
                                               MainThread)),
                   "callafter", None)
  /\ UNCHANGED <<win, tee, frame>>

NextSync ==
  \/ \E v \in Values : UserEdit(v)
  \/ \E w \in Values : ExternalChange(w)
  \/ DestroyEntry
  \/ Tick
  \/ \E t \in 1..MaxEdits : TimerExpire(t)
  \/ \E t \in 1..MaxEdits : TimerRun(t)
  \/ RunCallAfter


(***************************************************************************)
(* Part 2.  WindowSizeAndPositionTracker / WindowDimensionsTracker          *)
(* (the main window, on a platform that is not macOS)                      *)
(***************************************************************************)

\* None where the value is a tuple or an index (an index is kept as <<i>>): the
\* empty tuple, which Python's truth test treats as it treats None.
NoValue == << >>

\* No window has been closed yet (history, for the properties).
NotClosed ==
  [ by |-> "none", pos |-> <<0, 0>>, maximized |-> FALSE, iconized |-> FALSE,
    visible |-> FALSE, monitors |-> 0 ]

\* No move event was delivered in the step just taken (history).
NoMove ==
  [ seen |-> FALSE, pos |-> <<0, 0>>, iconized |-> FALSE, maximized |-> FALSE ]

\* wx.NOT_FOUND
NOT_FOUND == -1

\* Thresholds of the code.
NearOriginX == 100
NearOriginY == 50
MinWidth == 600
MinHeight == 400
MinVisible == 50
SafeX == 50
SafeY == 50

\* The monitors that may be connected, wx.Display(0) first; a session runs
\* with the first n of them.
AllDisplays ==
  << [x |-> 0,    y |-> 0, width |-> 1920, height |-> 1080],
     [x |-> 1920, y |-> 0, width |-> 1920, height |-> 1080] >>

\* The screen positions the window manager (or the user) moves the window to
\* and the sizes the window is given.
Positions ==
  { <<80, 0>>, <<100, 50>>, <<300, 200>>, <<2000, 100>>, <<5000, 100>> }
Sizes == { <<900, 500>>, <<700, 450>> }

\* Bound of the exploration: the times the application is started again.
MaxRestarts == 1

StartIconized == {"Always", "Never", "WhenClosedIconized"}

Max(a, b) == IF a >= b THEN a ELSE b
Min(a, b) == IF a <= b THEN a ELSE b

\* The area two rectangles share.
Overlap(r, d) ==
  LET w == Min(r.x + r.width, d.x + d.width) - Max(r.x, d.x)
      h == Min(r.y + r.height, d.y + d.height) - Max(r.y, d.y)
  IN  IF w > 0 /\ h > 0 THEN w * h ELSE 0

\* wx.Display.GetFromRect: the index of the display that shows most of the
\* rectangle, NOT_FOUND when none shows any of it.
GetFromRect(r, n) ==
  LET shown == {i \in 1..n : Overlap(r, AllDisplays[i]) > 0}
  IN  IF shown = {} THEN NOT_FOUND
      ELSE (CHOOSE i \in shown :
              \A j \in shown : \/ Overlap(r, AllDisplays[i]) > Overlap(r, AllDisplays[j])
                               \/ (Overlap(r, AllDisplays[i]) = Overlap(r, AllDisplays[j])
                                   /\ i <= j)) - 1

\* The rectangle of the window as a top-level window reports it: its normal
\* geometry, or the whole of its display while it is maximized.
GetRect(st) ==
  LET w == st.window
      normal == [x |-> w.x, y |-> w.y, width |-> w.width, height |-> w.height]
      d == GetFromRect(normal, st.monitors)
  IN  IF w.maximized
      THEN AllDisplays[IF d = NOT_FOUND THEN 1 ELSE d + 1]
      ELSE normal

\* wx.Display.GetFromWindow
GetFromWindow(st) == GetFromRect(GetRect(st), st.monitors)

\* The window lies wholly on one of the connected displays.
FullyVisible(st) ==
  LET r == GetRect(st)
  IN  \E i \in 1..st.monitors :
        /\ AllDisplays[i].x <= r.x /\ r.x + r.width <= AllDisplays[i].x + AllDisplays[i].width
        /\ AllDisplays[i].y <= r.y /\ r.y + r.height <= AllDisplays[i].y + AllDisplays[i].height

\* _Tracker.set_setting
set_setting(st, setting, value) ==
  [st EXCEPT !.settings[setting] = value, !.written = @ \cup {setting}]

\* _Tracker.get_setting
get_setting(st, setting) == st.settings[setting]

\* WindowSizeAndPositionTracker._on_maximize
OnMaximize(st) == [st EXCEPT !.tracker.is_maximized = TRUE]

\* The assignments of _on_move (lines 113-114).
CachePosition(st, pos, monitor) ==
  [st EXCEPT !.tracker.cached_position = pos, !.tracker.cached_monitor = <<monitor>>]

\* A faulty variant: the position of every move event is cached, also one
\* near the origin.
OnMove_AnyPosition(st, pos) ==
  IF ~st.window.iconized /\ ~st.window.maximized
  THEN CachePosition(st, pos, GetFromWindow(st))
  ELSE st

\* A faulty variant: the handler saves the position on every move event.
OnMove_Saving(st, pos) ==
  IF ~st.window.iconized /\ ~st.window.maximized
  THEN set_setting(CachePosition(st, pos, GetFromWindow(st)), "position", pos)
  ELSE st

\* WindowSizeAndPositionTracker._on_move
OnMove(st, pos) ==
  IF ~st.window.iconized /\ ~st.window.maximized
  THEN IF pos[1] > NearOriginX \/ pos[2] > NearOriginY
       THEN CachePosition(st, pos, GetFromWindow(st))
       ELSE st
  ELSE st

\* WindowSizeAndPositionTracker._on_size
OnSize(st, size) ==
  IF ~st.window.iconized /\ ~st.window.maximized
  THEN IF size[1] > MinWidth /\ size[2] > MinHeight
       THEN [st EXCEPT !.tracker.cached_size = size]
       ELSE st
  ELSE st

\* save_state, lines 135-146: position and size are saved.
SaveGeometry(st, r) ==
  set_setting(set_setting(st, "position", <<r.x, r.y>>), "size", <<r.width, r.height>>)

\* WindowSizeAndPositionTracker.save_state
SaveState(st) ==
  IF ~(st.window.maximized \/ st.tracker.is_maximized) /\ ~st.window.iconized
  THEN SaveGeometry(set_setting(st, "maximized", FALSE), GetRect(st))
  ELSE set_setting(st, "maximized", st.window.maximized \/ st.tracker.is_maximized)

\* save_position, lines 405-420: the position, the monitor when it is known,
\* the size unless maximized, the maximized state.
SavePositionAs(st, save_pos, monitor_index, size, maximized) ==
  LET a == set_setting(st, "position", save_pos)
      b == IF monitor_index # NOT_FOUND
           THEN set_setting(a, "monitor_index", monitor_index) ELSE a
      c == IF ~maximized THEN set_setting(b, "size", size) ELSE b
  IN  set_setting(c, "maximized", maximized)

\* save_position, lines 394-403: the cached position and monitor stand in for
\* a current position near the origin.
SavePositionFrom(st, current_pos, size, monitor, maximized) ==
  IF current_pos[1] < NearOriginX /\ current_pos[2] < NearOriginY
     /\ st.tracker.cached_position # NoValue
  THEN SavePositionAs(st, st.tracker.cached_position,
                      IF st.tracker.cached_monitor # NoValue
                      THEN st.tracker.cached_monitor[1] ELSE monitor,
                      size, maximized)
  ELSE SavePositionAs(st, current_pos, monitor, size, maximized)

\* save_position, lines 377-392, with the window's state read.
SavePositionOf(st, screen_rect, monitor) ==
  IF ~st.window.iconized
  THEN SavePositionFrom(set_setting(st, "iconized", FALSE),
                        <<screen_rect.x, screen_rect.y>>,
                        <<screen_rect.width, screen_rect.height>>,
                        monitor, st.window.maximized \/ st.tracker.is_maximized)
  ELSE set_setting(set_setting(st, "iconized", TRUE), "maximized",
                   st.window.maximized \/ st.tracker.is_maximized)

\* WindowDimensionsTracker.save_position
SavePosition(st) == SavePositionOf(st, GetRect(st), GetFromWindow(st))

\* wx.Window.SetSize(x, y, width, height)
SetSize(st, x, y, width, height) ==
  [st EXCEPT !.window.x = x, !.window.y = y,
             !.window.width = width, !.window.height = height]

\* _validate_window_position, lines 324-345: a window of which less than 50
\* pixels show on its display is centred on it.
CentreIfHidden(st, width, height, d, r) ==
  IF \/ Min(r.x + r.width, d.x + d.width) - Max(r.x, d.x) < MinVisible
     \/ Min(r.y + r.height, d.y + d.height) - Max(r.y, d.y) < MinVisible
  THEN SetSize(st, d.x + (d.width - width) \div 2, d.y + (d.height - height) \div 2,
               width, height)
  ELSE st

\* _validate_window_position, with the display of the window found.
ValidateOn(st, width, height, display_index) ==
  IF display_index = NOT_FOUND
  THEN SetSize(st, SafeX, SafeY, width, height)
  ELSE CentreIfHidden(st, width, height, AllDisplays[display_index + 1], GetRect(st))

\* WindowSizeAndPositionTracker._validate_window_position
ValidateWindowPosition(st, width, height) ==
  ValidateOn(st, width, height, GetFromWindow(st))

\* __set_dimensions, lines 239-246: the cache starts as the applied geometry.
InitCache(st, final_rect, final_monitor) ==
  [st EXCEPT !.tracker.cached_position = <<final_rect.x, final_rect.y>>,
             !.tracker.cached_size = <<final_rect.width, final_rect.height>>,
             !.tracker.cached_monitor = <<final_monitor>>]

\* __set_dimensions, lines 231-237: maximize when the settings say so, then
\* validate.
MaximizeAndValidate(st, width, height) ==
  ValidateWindowPosition(
    IF get_setting(st, "maximized")
    THEN [st EXCEPT !.window.maximized = TRUE, !.tracker.is_maximized = TRUE]
    ELSE st,
    width, height)

\* __set_dimensions, lines 203-226, for a window that is no dialog: the saved
\* position as it is, unless the saved monitor is gone or nothing was saved.
PlaceWindow(st, pos, width, height, saved_monitor, primary) ==
  IF saved_monitor >= st.monitors \/ (pos[1] = -1 /\ pos[2] = -1)
  THEN SetSize(st, primary.x + (primary.width - width) \div 2,
                   primary.y + (primary.height - height) \div 2, width, height)
  ELSE SetSize(st, pos[1], pos[2], width, height)

\* __set_dimensions, with the size read from the settings and raised to the
\* minimum.
Placed(st, width, height) ==
  MaximizeAndValidate(
    PlaceWindow(st, get_setting(st, "position"), width, height,
                get_setting(st, "monitor_index"), AllDisplays[1]),
    width, height)

\* __set_dimensions, with the window placed.
Cached(st) == InitCache(st, GetRect(st), GetFromWindow(st))

\* WindowSizeAndPositionTracker.__set_dimensions
SetDimensions(st) ==
  Cached(Placed(st, Max(get_setting(st, "size")[1], MinWidth),
                    Max(get_setting(st, "size")[2], MinHeight)))

\* WindowDimensionsTracker.__start_iconized
StartsIconized(st) ==
  CASE st.settings.starticonized = "Always" -> TRUE
    [] st.settings.starticonized = "Never" -> FALSE
    [] OTHER -> get_setting(st, "iconized")

\* WindowDimensionsTracker.__init__, lines 355-358
StartWindow(st) ==
  IF StartsIconized(st) THEN [st EXCEPT !.window.iconized = TRUE] ELSE st

\* WindowSizeAndPositionTracker.__init__, lines 80-90: a new window and a
\* tracker with nothing cached yet.
FreshWindow(settings, monitors) ==
  [ window   |-> [x |-> 0, y |-> 0, width |-> MinWidth, height |-> MinHeight,
                  maximized |-> FALSE, iconized |-> FALSE],
    tracker  |-> [is_maximized |-> FALSE, cached_position |-> NoValue,
                  cached_size |-> NoValue, cached_monitor |-> NoValue],
    settings |-> settings,
    monitors |-> monitors,
    open     |-> TRUE,
    restarts |-> 0,
    written  |-> {},
    closed   |-> NotClosed,
    moveEvent |-> NoMove,
    lastEvent |-> "construct" ]

\* WindowDimensionsTracker.__init__ (with WindowSizeAndPositionTracker's):
\* a new window and a new tracker over the stored settings.
NewTracker(settings, monitors) ==
  StartWindow(SetDimensions(FreshWindow(settings, monitors)))

\* The settings of a first start: no position saved.
DefaultSettings(start) ==
  [ position |-> <<-1, -1>>, size |-> <<900, 500>>, maximized |-> FALSE,
    iconized |-> FALSE, monitor_index |-> -1, starticonized |-> start ]

\* What the window was like when it was closed, for the properties.
ClosingAt(st, by, r) ==
  [ by |-> by, pos |-> <<r.x, r.y>>, maximized |-> st.window.maximized,
    iconized |-> st.window.iconized, visible |-> FullyVisible(st),
    monitors |-> st.monitors ]

Closing(st, by) == ClosingAt(st, by, GetRect(st))

\* The kind of the step just taken, for the properties: "event" (a move, size,
\* maximize, restore or iconize event), "save_state", "save_position" or
\* "construct".
WinEvent(st, kind) == [st EXCEPT !.lastEvent = kind]
Handling(st) == [st EXCEPT !.written = {}, !.moveEvent = NoMove]

\* History: the move event delivered in this step, and the state of the
\* window when it is delivered.
Delivered(st, pos) ==
  [st EXCEPT !.moveEvent = [seen |-> TRUE, pos |-> pos,
                            iconized |-> st.window.iconized,
                            maximized |-> st.window.maximized]]

\* EVT_MOVE and EVT_SIZE with the geometry the window has now.
MovedAndSized(st, r) ==
  OnSize(OnMove(Delivered(st, <<r.x, r.y>>), <<r.x, r.y>>), <<r.width, r.height>>)

(* The actions of the window and its tracker. *)

\* The window is moved; EVT_MOVE is delivered.
Move(p) ==
  /\ win.open /\ ~win.window.maximized /\ ~win.window.iconized
  /\ p # <<win.window.x, win.window.y>>
  /\ win' = WinEvent(OnMove(Delivered([Handling(win) EXCEPT !.window.x = p[1],
                                                             !.window.y = p[2]], p), p),
                     "event")
  /\ UNCHANGED <<sync, tee, frame>>

\* The window is resized; EVT_SIZE is delivered.
Resize(s) ==
  /\ win.open /\ ~win.window.maximized /\ ~win.window.iconized
  /\ s # <<win.window.width, win.window.height>>
  /\ win' = WinEvent(OnSize([Handling(win) EXCEPT !.window.width = s[1],
                                                  !.window.height = s[2]], s),
                     "event")
  /\ UNCHANGED <<sync, tee, frame>>

\* The window is maximized; EVT_MAXIMIZE, EVT_MOVE and EVT_SIZE are delivered.
Maximize ==
  /\ win.open /\ ~win.window.maximized /\ ~win.window.iconized
  /\ win' = WinEvent(
              MovedAndSized(OnMaximize([Handling(win) EXCEPT !.window.maximized = TRUE]),
                            GetRect([win EXCEPT !.window.maximized = TRUE])),
              "event")
  /\ UNCHANGED <<sync, tee, frame>>

\* The window is restored from maximized to its normal geometry; EVT_MOVE and
\* EVT_SIZE are delivered.
Restore ==
  /\ win.open /\ win.window.maximized /\ ~win.window.iconized
  /\ win' = WinEvent(
              MovedAndSized([Handling(win) EXCEPT !.window.maximized = FALSE],
                            GetRect([win EXCEPT !.window.maximized = FALSE])),
              "event")
  /\ UNCHANGED <<sync, tee, frame>>

\* The window is iconized or brought back.
Iconize(b) ==
  /\ win.open /\ win.window.iconized # b
  /\ win' = WinEvent([Handling(win) EXCEPT !.window.iconized = b], "event")
  /\ UNCHANGED <<sync, tee, frame>>

\* The window is about to close: save_state.
CloseSaveState ==
  /\ win.open
  /\ win' = WinEvent([SaveState(Handling(win)) EXCEPT !.open = FALSE,
                         !.closed = Closing(win, "save_state")], "save_state")
  /\ UNCHANGED <<sync, tee, frame>>

\* The main window is about to close: save_position.
CloseSavePosition ==
  /\ win.open
  /\ win' = WinEvent([SavePosition(Handling(win)) EXCEPT !.open = FALSE,
                         !.closed = Closing(win, "save_position")], "save_position")
  /\ UNCHANGED <<sync, tee, frame>>

\* The application is started again, with n monitors connected.
Restart(n) ==
  /\ ~win.open
  /\ win.restarts < MaxRestarts
  /\ win' = [NewTracker(win.settings, n) EXCEPT !.closed = win.closed,
                                                !.restarts = win.restarts + 1]
  /\ UNCHANGED <<sync, tee, frame>>

NextWindow ==
  \/ \E p \in Positions : Move(p)
  \/ \E s \in Sizes : Resize(s)
  \/ Maximize
  \/ Restore
  \/ \E b \in BOOLEAN : Iconize(b)
  \/ CloseSaveState
  \/ CloseSavePosition
  \/ \E n \in 1..Len(AllDisplays) : Restart(n)

WinInit == NewTracker(DefaultSettings("Never"), Len(AllDisplays))
WinInits == {NewTracker(DefaultSettings(start), n) : start \in StartIconized, n \in 1..Len(AllDisplays)}

(***************************************************************************)
(* Part 3.  tee: stdout/stderr mirrored to the console and the log file     *)
(***************************************************************************)

Streams == {"stdout", "stderr"}

\* Bound of the exploration: the writes made to the two streams.
MaxWrites == 2

\* The module state after init_tee(): both pipes set up and empty, both tee
\* threads started and about to test the stop event for the first time.
\* Fields writes, writtenBefore and writtenDuring are history.
TeeStart(broken) ==
  [ stop          |-> FALSE,
    has_errors    |-> FALSE,
    pipe          |-> [s \in Streams |-> 0],
    buffered      |-> [s \in Streams |-> FALSE],
    writeOpen     |-> [s \in Streams |-> TRUE],
    origOpen      |-> [s \in Streams |-> TRUE],
    logOpen       |-> TRUE,
    consoleBroken |-> broken,
    thread        |-> [s \in Streams |-> "check"],
    shutdown      |-> "idle",
    result        |-> FALSE,
    writes        |-> 0,
    writtenBefore |-> FALSE,
    writtenDuring |-> FALSE ]

\* History: a write to stderr, before or after shutdown_tee was called.
Written(st, s) ==
  [st EXCEPT !.writes = @ + 1,
             !.writtenBefore = @ \/ (s = "stderr" /\ st.shutdown = "idle"),
             !.writtenDuring = @ \/ (s = "stderr" /\ st.shutdown # "idle")]

\* A writer writes a whole line to sys.stdout / sys.stderr, or writes to the
\* file descriptor: the data is in the pipe.
WriteLine(s) ==
  /\ tee.writes < MaxWrites
  /\ tee.writeOpen[s]
  /\ tee' = [Written(tee, s) EXCEPT !.pipe[s] = @ + 1]
  /\ UNCHANGED <<sync, win, frame>>

\* A writer writes part of a line to the line-buffered sys.stdout /
\* sys.stderr: the data stays in the stream's buffer.
WritePartial(s) ==
  /\ tee.writes < MaxWrites
  /\ tee.writeOpen[s]
  /\ ~tee.buffered[s]
  /\ tee' = [Written(tee, s) EXCEPT !.buffered[s] = TRUE]
  /\ UNCHANGED <<sync, win, frame>>

\* _tee_thread, line 60: the loop tests the stop event; when it is set the
\* thread leaves the loop and ends.
ThreadCheck(s) ==
  /\ tee.thread[s] = "check"
  /\ tee' = [tee EXCEPT !.thread[s] = IF tee.stop THEN "done" ELSE "read"]
  /\ UNCHANGED <<sync, win, frame>>

\* _tee_thread, lines 62-64: os.read returns k chunks of data, or nothing at
\* end of file (the write end is closed and the pipe is empty).
ThreadRead(s, k) ==
  /\ tee.thread[s] = "read"
  /\ \/ /\ k \in 1..tee.pipe[s]
        /\ tee' = [tee EXCEPT !.pipe[s] = @ - k, !.thread[s] = "console"]
     \/ /\ k = 0
        /\ tee.pipe[s] = 0
        /\ ~tee.writeOpen[s]
        /\ tee' = [tee EXCEPT !.thread[s] = "done"]
  /\ UNCHANGED <<sync, win, frame>>

\* The console cannot be written: os.write raises OSError.
ConsoleFails(st, s) == st.consoleBroken \/ ~st.origOpen[s]

\* _tee_thread, lines 67-71 and 86-87: the data goes to the console; when
\* that raises OSError the message written in the handler raises it again
\* and the loop is left.
ThreadConsole(s) ==
  /\ tee.thread[s] = "console"
  /\ tee' = [tee EXCEPT !.thread[s] = IF ConsoleFails(tee, s) THEN "done" ELSE "log"]
  /\ UNCHANGED <<sync, win, frame>>

\* Where the thread goes on after the log file: to the error flag for
\* stderr, to the loop test for stdout.
AfterLog(s) == IF s = "stderr" THEN "flag" ELSE "check"

\* _tee_thread, lines 74-79: the data goes to the log file; when the log
\* file is closed the message about it goes to the console, and an OSError
\* from that ends the loop.
ThreadLog(s) ==
  /\ tee.thread[s] = "log"
  /\ tee' = [tee EXCEPT !.thread[s] =
               IF ~tee.logOpen /\ ConsoleFails(tee, s) THEN "done" ELSE AfterLog(s)]
  /\ UNCHANGED <<sync, win, frame>>

\* _tee_thread, line 82: only data of stderr sets the error flag.
SetsFlag(s) == s = "stderr"

\* _tee_thread, lines 82-84: under the lock, the error flag is set.
ThreadFlag(s) ==
  /\ tee.thread[s] = "flag"
  /\ tee' = [tee EXCEPT !.has_errors = @ \/ SetsFlag(s), !.thread[s] = "check"]
  /\ UNCHANGED <<sync, win, frame>>

\* shutdown_tee, lines 154-155: the stop event is set.
ShutdownStop ==
  /\ tee.shutdown = "idle"
  /\ tee' = [tee EXCEPT !.stop = TRUE, !.shutdown = "close_stdout"]
  /\ UNCHANGED <<sync, win, frame>>

\* shutdown_tee, lines 159-169: the stream is flushed (buffered data reaches
\* the pipe) and closed, which closes the write end of its pipe.
ShutdownClose(s) ==
  /\ tee.shutdown = "close_" \o s
  /\ tee' = [tee EXCEPT !.pipe[s] = IF tee.buffered[s] THEN @ + 1 ELSE @,
                        !.buffered[s] = FALSE,
                        !.writeOpen[s] = FALSE,
                        !.shutdown = IF s = "stdout" THEN "close_stderr" ELSE "join_stdout"]
  /\ UNCHANGED <<sync, win, frame>>

\* shutdown_tee, lines 172-177: join(timeout=1.0) returns when the thread has
\* ended, or when the timeout has passed and it has not.
ShutdownJoin(s, timedOut) ==
  /\ tee.shutdown = "join_" \o s
  /\ timedOut <=> tee.thread[s] # "done"
  /\ tee' = [tee EXCEPT !.shutdown = IF s = "stdout" THEN "join_stderr"
                                     ELSE "restore_stdout"]
  /\ UNCHANGED <<sync, win, frame>>

\* shutdown_tee, lines 180-197: the original descriptor is put back and its
\* duplicate closed.
ShutdownRestore(s) ==
  /\ tee.shutdown = "restore_" \o s
  /\ tee' = [tee EXCEPT !.origOpen[s] = FALSE,
                        !.shutdown = IF s = "stdout" THEN "restore_stderr" ELSE "close_log"]
  /\ UNCHANGED <<sync, win, frame>>

\* shutdown_tee, lines 200-205: the log file is closed.
ShutdownCloseLog ==
  /\ tee.shutdown = "close_log"
  /\ tee' = [tee EXCEPT !.logOpen = FALSE, !.shutdown = "return"]
  /\ UNCHANGED <<sync, win, frame>>

\* shutdown_tee, lines 208-209: under the lock, the error flag is returned.
ShutdownReturn ==
  /\ tee.shutdown = "return"
  /\ tee' = [tee EXCEPT !.result = tee.has_errors, !.shutdown = "returned"]
  /\ UNCHANGED <<sync, win, frame>>

NextTee ==
  \/ \E s \in Streams : WriteLine(s)
  \/ \E s \in Streams : WritePartial(s)
  \/ \E s \in Streams : ThreadCheck(s)
  \/ \E s \in Streams : \E k \in 0..MaxWrites : ThreadRead(s, k)
  \/ \E s \in Streams : ThreadConsole(s)
  \/ \E s \in Streams : ThreadLog(s)
  \/ \E s \in Streams : ThreadFlag(s)
  \/ ShutdownStop
  \/ \E s \in Streams : ShutdownClose(s)
  \/ \E s \in Streams : \E timedOut \in BOOLEAN : ShutdownJoin(s, timedOut)
  \/ \E s \in Streams : ShutdownRestore(s)
  \/ ShutdownCloseLog
  \/ ShutdownReturn

(***************************************************************************)
(* Part 4.  test_window_position.TestFrame                                  *)
(***************************************************************************)

\* TARGET_POS
TARGET_POS == <<100, 100>>

\* The positions the window manager moves the frame to.
FramePositions == { <<0, 0>>, <<26, 23>>, TARGET_POS }

\* Time is counted in ticks. The delay of wx.CallLater(100, ...) and the
\* 0.1 s a move must lie back, in ticks.
CallLaterDelay == 2
SettleTime == 2

\* Bound of the exploration: the move events the window manager causes.
MaxMoves == 3

\* TestFrame.__init__. callLater[r] is the number of pending
\* wx.CallLater callbacks that are due in r ticks; elapsed is
\* time.time() - last_move_time, counted up to SettleTime. Fields applies
\* (calls of SetPosition), wmMoves, noops (callbacks run after the position was
\* applied) and lastEvent are history.
FrameInit ==
  [ move_count       |-> 0,
    position_applied |-> FALSE,
    elapsed          |-> 0,
    callLater        |-> [r \in 0..CallLaterDelay |-> 0],
    pos              |-> <<0, 0>>,
    applies          |-> 0,
    wmMoves          |-> 0,
    noops            |-> 0,
    lastEvent        |-> "construct" ]

\* wx.CallLater(100, self._check_and_apply_position)
CallLater(st) == [st EXCEPT !.callLater[CallLaterDelay] = @ + 1]

\* The number of callbacks pending.
RECURSIVE PendingFrom(_, _)
PendingFrom(st, r) ==
  IF r > CallLaterDelay THEN 0 ELSE st.callLater[r] + PendingFrom(st, r + 1)

Pending(st) == PendingFrom(st, 0)

\* TestFrame.on_move
FrameOnMove(st) ==
  LET s1 == [st EXCEPT !.move_count = @ + 1, !.elapsed = 0]
  IN  IF ~s1.position_applied THEN CallLater(s1) ELSE s1

\* self.SetPosition(wx.Point(*TARGET_POS)): the frame is at the target; when
\* that moves it, its EVT_MOVE is handled before SetPosition returns (echo)
\* or comes later from the window manager.
FrameSetPosition(st, echo) ==
  LET s1 == [st EXCEPT !.pos = TARGET_POS, !.applies = @ + 1]
  IN  IF echo /\ st.pos # TARGET_POS THEN FrameOnMove(s1) ELSE s1

\* A faulty variant: the position is applied by the first callback that runs,
\* however recent the last move.
CheckAndApplyPosition_NoWait(st, echo) ==
  IF st.position_applied
  THEN st
  ELSE FrameSetPosition([st EXCEPT !.position_applied = TRUE], echo)

\* TestFrame._check_and_apply_position
CheckAndApplyPosition(st, echo) ==
  IF st.position_applied
  THEN st
  ELSE IF st.elapsed < SettleTime
       THEN CallLater(st)
       ELSE FrameSetPosition([st EXCEPT !.position_applied = TRUE], echo)

FrameEvent(st, kind) == [st EXCEPT !.lastEvent = kind]

(* The actions of the frame. *)

\* The window manager moves the frame; EVT_MOVE is delivered.
FrameMove(p) ==
  /\ frame.wmMoves < MaxMoves
  /\ p # frame.pos
  /\ frame' = FrameEvent(FrameOnMove([frame EXCEPT !.pos = p, !.wmMoves = @ + 1]), "move")
  /\ UNCHANGED <<sync, win, tee>>

\* One tick of time passes: the elapsed time grows, the pending callbacks
\* come nearer; a callback that is due stays due until the main loop runs it.
FrameTick ==
  /\ \/ frame.elapsed < SettleTime
     \/ \E r \in 1..CallLaterDelay : frame.callLater[r] > 0
  /\ frame' = FrameEvent(
       [frame EXCEPT
          !.elapsed = IF @ < SettleTime THEN @ + 1 ELSE @,
          !.callLater = [r \in 0..CallLaterDelay |->
                           IF r = 0 THEN @[0] + @[1]
                           ELSE IF r = CallLaterDelay THEN 0
                           ELSE @[r + 1]]],
       "tick")
  /\ UNCHANGED <<sync, win, tee>>

\* The main loop runs a wx.CallLater callback that is due.
FrameCallback(echo) ==
  /\ frame.callLater[0] > 0
  /\ frame' = FrameEvent(
       CheckAndApplyPosition([frame EXCEPT !.callLater[0] = @ - 1,
                                           !.noops = IF frame.position_applied
                                                     THEN @ + 1 ELSE @], echo),
       "callback")
  /\ UNCHANGED <<sync, win, tee>>

NextFrame ==
  \/ \E p \in FramePositions : FrameMove(p)
  \/ FrameTick
  \/ \E echo \in BOOLEAN : FrameCallback(echo)

TeeInit == TeeStart(FALSE)

Init ==
  /\ sync \in {SyncInit(d, r) : d \in {0, DebounceMs}, r \in BOOLEAN}
  /\ win = WinInit
  /\ tee = TeeInit
  /\ frame = FrameInit

SpecSync == Init /\ [][NextSync]_vars

InitWindow ==
  /\ sync = SyncInit(0, FALSE)
  /\ win \in WinInits
  /\ tee = TeeInit
  /\ frame = FrameInit

SpecWindow == InitWindow /\ [][NextWindow]_vars

InitTee ==
  /\ sync = SyncInit(0, FALSE)
  /\ win = WinInit
  /\ tee \in {TeeStart(broken) : broken \in BOOLEAN}
  /\ frame = FrameInit

SpecTee == InitTee /\ [][NextTee]_vars

InitFrame ==
  /\ sync = SyncInit(0, FALSE)
  /\ win = WinInit
  /\ tee = TeeInit
  /\ frame = FrameInit

\* The main loop runs and time passes: a callback that is due is run, and the
\* clock goes on.
SpecFrame ==
  /\ InitFrame
  /\ [][NextFrame]_vars
  /\ WF_vars(FrameTick)
  /\ WF_vars(\E echo \in BOOLEAN : FrameCallback(echo))

(***************************************************************************)
(* Properties of AttributeSync                                             *)
(***************************************************************************)

\* C1: with debounce_ms > 0, over edit events, timer firings and queued
\* main-thread callbacks, a command is executed only when a full debounce
\* interval has passed since the most recent value-changing edit event.
C1_ExecutedOnlyAfterInterval ==
  [][(sync.debounce_ms > 0 /\ ~sync'.interfered /\ Len(sync'.cmds) > Len(sync.cmds))
       => sync.sinceEdit >= DebounceMs]_vars

\* C2: with debounce_ms > 0, a burst of value-changing edit events, each less
\* than debounce_ms after the previous one, results in exactly one executed
\* command, which carries the value of the last edit of the burst: never more
\* than one command per burst, and once the burst has been dispatched exactly
\* one, with the last value.
C2_OneCommandPerBurst ==
  (sync.debounce_ms > 0 /\ ~sync.interfered) =>
    /\ sync.burstCmds <= 1
    /\ (Quiescent(sync) /\ sync.burstLast # None) =>
         /\ sync.burstCmds = 1
         /\ sync.cmds[Len(sync.cmds)] = sync.burstLast

\* C3: in every quiescent state reached by user edits and changes made
\* elsewhere to the single observed item, the attribute of the domain object
\* equals the value the control shows.
C3_SynchronizedWhenQuiescent ==
  (sync.entryAlive /\ sync.observing /\ Quiescent(sync))
    => sync.modelValue = sync.entryValue

\* C4: with debounce_ms = 0, an edit event whose control value differs from
\* the current value executes exactly one command carrying that value before
\* the handler returns, and an edit event whose control value equals the
\* current value executes no command.
C4_ImmediateDispatch ==
  [][(sync.debounce_ms = 0 /\ sync'.lastEvent.kind = "edit") =>
       LET v == sync'.lastEvent.value
       IN  IF v # sync.currentValue
           THEN /\ sync'.cmds = Append(sync.cmds, v)
                /\ sync'.modelValue = v
                /\ sync'.currentValue = v
           ELSE sync'.cmds = sync.cmds]_vars

C4_Witness ==
  /\ sync.debounce_ms = 0
  /\ sync.lastEvent.kind = "edit"
  /\ sync.lastEvent.value # sync.lastEvent.before
  /\ Len(sync.cmds) = 2
  /\ sync.cmds[2] = sync.lastEvent.value

\* C5: when the observed item's attribute is changed elsewhere to a value
\* that differs from the current value and the control still exists, the
\* control is set to the new value, the current value becomes the new value,
\* and no command is executed, not even through the edit event that updating
\* the control may raise; nothing is left pending either.
C5_ExternalChangeUpdatesControl ==
  [][(/\ sync'.lastEvent.kind = "changed"
      /\ sync.observing
      /\ sync.entryAlive
      /\ sync'.lastEvent.value # sync.currentValue) =>
       /\ sync'.entryValue = sync'.lastEvent.value
       /\ sync'.currentValue = sync'.lastEvent.value
       /\ sync'.cmds = sync.cmds
       /\ sync'.pendingValue = None]_vars

C5_Witness ==
  /\ sync.lastEvent.kind = "changed"
  /\ sync.setValueRaises
  /\ sync.entryAlive
  /\ sync.lastEvent.value # sync.lastEvent.before
  /\ sync.entryValue = sync.lastEvent.value
  /\ sync.edits > 0

\* C6: the timer thread's only action is to post the main-thread callback
\* with CallAfter: it executes no command, does not run the callback and does
\* not touch the pending value.
C6_TimerThreadOnlyPosts ==
  \A p \in sync.access : p[1] = TimerThread => p[2] = "CallAfter"

C6_Witness ==
  /\ <<TimerThread, "CallAfter">> \in sync.access
  /\ <<MainThread, "onDebounceTimerMain">> \in sync.access
  /\ <<MainThread, "command">> \in sync.access
  /\ sync.debounce_ms > 0
  /\ Len(sync.cmds) > 0

Saves == {"save_state", "save_position"}

\* C7: window state is saved only on close: no move, size or maximize event
\* (nor any other event the tracker handles) writes a setting; settings are
\* written only by save_state and save_position.
C7_SavedOnlyOnClose ==
  [][win'.lastEvent \notin Saves =>
       (win'.settings = win.settings /\ win'.written = {})]_vars

C7_Witness ==
  /\ win.lastEvent = "event"
  /\ win.restarts > 0
  /\ win.tracker.cached_position # win.settings.position
  /\ win.written = {}

\* C8: the 'maximized' setting written by save_state / save_position is true
\* if and only if the window is maximized when the save is performed.
C8_MaximizedSavedAsIs ==
  win.lastEvent \in Saves => (win.settings.maximized <=> win.window.maximized)

\* C9: for a main window that is not iconized, not maximized and fully
\* visible on a monitor, save_position followed by the construction of a new
\* tracker on the same monitor layout places the window at exactly the screen
\* position it had at close. The claim is for any screen position; it is
\* stated here for the positions save_position writes as they are (x >= 100
\* or y >= 50), leaving aside those it replaces by the cached position.
C9_PositionRoundTrip ==
  (/\ win.lastEvent = "construct"
   /\ win.closed.by = "save_position"
   /\ ~win.closed.iconized
   /\ ~win.closed.maximized
   /\ win.closed.visible
   /\ win.closed.monitors = win.monitors
   /\ (win.closed.pos[1] >= NearOriginX \/ win.closed.pos[2] >= NearOriginY))
    => LET r == GetRect(win) IN <<r.x, r.y>> = win.closed.pos

\* C13, the save: when the main window is not iconized, its current screen
\* position has x < 100 and y < 50 and a cached position exists,
\* save_position writes the cached position (and the cached monitor when one
\* is known) in place of the current one; otherwise it writes the current
\* screen position.
SavesCachedNearOrigin ==
  [][(win'.lastEvent = "save_position" /\ ~win.window.iconized) =>
       LET r == GetRect(win)
           cached == win.tracker.cached_position
           monitor == win.tracker.cached_monitor
       IN  IF r.x < 100 /\ r.y < 50 /\ cached # NoValue
           THEN /\ win'.settings.position = cached
                /\ (monitor # NoValue /\ monitor[1] # NOT_FOUND)
                     => win'.settings.monitor_index = monitor[1]
           ELSE win'.settings.position = <<r.x, r.y>>]_vars

\* C13, the cache: it is only ever the position applied when the tracker was
\* constructed, or the position of a later move event received while the
\* window was neither iconized nor maximized and with x > 100 or y > 50.
CachedOnlyFromRestoreOrMove ==
  [][win'.tracker.cached_position # win.tracker.cached_position =>
       \/ /\ win'.lastEvent = "construct"
          /\ win'.tracker.cached_position = <<GetRect(win').x, GetRect(win').y>>
       \/ /\ win'.lastEvent = "event"
          /\ win'.moveEvent.seen
          /\ win'.tracker.cached_position = win'.moveEvent.pos
          /\ ~win'.moveEvent.iconized
          /\ ~win'.moveEvent.maximized
          /\ (win'.moveEvent.pos[1] > 100 \/ win'.moveEvent.pos[2] > 50)]_vars

\* C13: both parts.
C13_CachedPositionHeuristic ==
  /\ SavesCachedNearOrigin
  /\ CachedOnlyFromRestoreOrMove

\* The window was moved to a place near the origin after its position away
\* from it had been cached by a move event, and save_position wrote the cached
\* position.
C13_Witness ==
  /\ win.lastEvent = "save_position"
  /\ win.closed.by = "save_position"
  /\ ~win.closed.iconized
  /\ ~win.closed.maximized
  /\ win.closed.pos[1] < 100 /\ win.closed.pos[2] < 50
  /\ win.settings.position = win.tracker.cached_position
  /\ win.settings.position # win.closed.pos
  /\ win.settings.position = <<2000, 100>>
  /\ win.settings.monitor_index = 1

(***************************************************************************)
(* Properties of the tee                                                   *)
(***************************************************************************)

\* C10: shutdown_tee returns whether errors occurred: for every interleaving
\* of the writers, the two tee threads and the shutdown call, it returns True
\* if any data was written to stderr between init_tee and the call to
\* shutdown_tee, and False if none was. Stated for the runs in which the
\* console can be written, both tee threads have ended when shutdown_tee
\* returns (no join timed out) and nothing was written to stderr after the
\* call.
C10_ShutdownReturnsWhetherWritten ==
  (/\ tee.shutdown = "returned"
   /\ ~tee.writtenDuring
   /\ ~tee.consoleBroken
   /\ \A s \in Streams : tee.thread[s] = "done")
    => (tee.result <=> tee.writtenBefore)

(***************************************************************************)
(* Properties of the test frame                                            *)
(***************************************************************************)

\* SetPosition(TARGET_POS) is called at most once and only when at least
\* 100 ms have passed since the last move event.
AppliedOnceWhenSettled ==
  [][frame'.applies > frame.applies =>
       /\ frame.applies = 0
       /\ frame'.applies = 1
       /\ frame.elapsed >= SettleTime
       /\ frame'.pos = TARGET_POS]_vars

\* A callback that runs after the position was applied does nothing.
LateCallbacksDoNothing ==
  [][(frame.position_applied /\ frame'.lastEvent = "callback") =>
       /\ frame'.applies = frame.applies
       /\ frame'.pos = frame.pos
       /\ frame'.move_count = frame.move_count
       /\ frame'.elapsed = frame.elapsed
       /\ Pending(frame') = Pending(frame) - 1]_vars

\* C11, as stated: over any sequence of move events and delayed check
\* callbacks, SetPosition(TARGET_POS) is called at most once, only when at
\* least 100 ms have passed since the last move event; once moves stop it is
\* eventually called, and every remaining pending callback does nothing.
C11_Original ==
  /\ AppliedOnceWhenSettled
  /\ LateCallbacksDoNothing
  /\ <>(frame.applies = 1)

\* C11, amended: as above, with the position eventually applied provided at
\* least one move event was delivered (the check is scheduled by on_move
\* only).
C11_AppliedAfterMovesStop ==
  /\ AppliedOnceWhenSettled
  /\ LateCallbacksDoNothing
  /\ (frame.move_count > 0) ~> (frame.applies = 1)

C11_Witness ==
  /\ frame.applies = 1
  /\ frame.position_applied
  /\ frame.wmMoves >= 2
  /\ frame.noops >= 1
  /\ Pending(frame) = 0
  /\ frame.lastEvent = "callback"

====
